---- MODULE Spec2Model ----
(***************************************************************************)
(* Season state reconstruction of the Gaffer backend.                      *)
(*                                                                         *)
(* Free-transfer part: the history walk of /connect (connect_team), the    *)
(* history walk of /debug-ft2 (debug_ft2) and the free-transfer branch of  *)
(* get_full_squad_context, followed by the prompt line that               *)
(* build_squad_prompt_context writes and build_prompt parses back.         *)
(*                                                                         *)
(* A weekly record of the upstream history is [made, cost, chip]:          *)
(* event_transfers, event_transfers_cost, and the chip the history's       *)
(* "chips" list reports for that event (the walks never read it).          *)
(* The two walks consume the upstream list one record per step; the list   *)
(* is the input, drawn record by record.                                   *)
(***************************************************************************)
EXTENDS Integers, Sequences, FiniteSets, TLC

\* ---------------------------------------------------------------- bounds
MaxLen   == 5    \* longest upstream history (records, the open one included)
MaxMade  == 2    \* largest event_transfers of a record
MaxCost  == 8    \* largest event_transfers_cost of a record
MaxLimit == 5    \* largest transfers.limit the entry summary reports

\* ------------------------------------------------------ program constants
StartFT   == 1   \* ft = 1  # always start season with 1
DefaultFTZero == StartFT - 1   \* variant: /connect defaults to no free transfer
DefaultFT == 1   \* /connect: free_transfers = 1 before the history is read
SquadDefaultFT == 1   \* squad context: free_transfers = 1 before picks are read
MaxFT     == 5   \* min(5, ...)
HitCost   == 4   \* cost // 4
Unlimited == 99  \* free_transfers = 99 when a wildcard / free hit is active

NoLimit == 0 - 1     \* transfers.limit absent (Python None)
Unset   == 0 - 100   \* no response of that endpoint yet

NoChip == "none"
Chips  == {NoChip, "wildcard", "freehit", "bboost"}

Records  == [made : 0..MaxMade, cost : 0..MaxCost, chip : Chips]
NoRecord == [made |-> 0 - 1, cost |-> 0 - 1, chip |-> NoChip]

Min(a, b) == IF a < b THEN a ELSE b
Max(a, b) == IF a > b THEN a ELSE b

VARIABLES
    pc,            \* "idle", "connect" (inside the walk of connect_team), "debug_ft2"
    ft,            \* the walk's running balance (local ft of the running handler)
    n,             \* records the running / last walk has consumed in its loop
    gw_entry,      \* the record the loop consumed last (NoRecord before the first)
    latest,        \* current[-1] as the last history fetch returned it (NoRecord: empty list)
    finished,      \* upstream: the gameweek of `latest` is finished (no gameweek is open)
    connect_resp,  \* "free_transfers" of the last /connect response
    debug_resp,    \* "calculated_ft" of the last /debug-ft2 response
    squad_ft,      \* squad_ctx["free_transfers"] of the last squad context
    prompt_ft,     \* ft that build_prompt parsed from the squad prompt text
    limit,         \* team_data["transfers"]["limit"] the squad context saw
    picks_present, \* the squad context got a picks response
    active_chip,   \* picks_data["active_chip"] the squad context saw
    history        \* what the last history fetch gave: "none" yet, "failed",
                   \* "empty" (current == []) or "records"

vars == <<pc, ft, n, gw_entry, latest, finished, connect_resp, debug_resp,
          squad_ft, prompt_ft, limit, picks_present, active_chip, history>>

\* Chip availability (/history, /briefing, /debug-chips)
VARIABLES
    chips,            \* upstream hdata["chips"]: the chip usage log, in order
    current_event,    \* upstream current[-1]["event"]; NoEvent when current == []
    history_resp,     \* chip part of the last /history response
    briefing_resp,    \* chip_availability the last /briefing built
    debug_chips_resp, \* chip part of the last /debug-chips response
    prompt_chips      \* the CHIPS AVAILABLE line of the prompt the last
                      \* /briefing built

chipVars == <<chips, current_event, history_resp, briefing_resp, debug_chips_resp,
              prompt_chips>>

\* The availability classifier of get_full_squad_context (fpl.py 185-202)
VARIABLES
    player,         \* the bootstrap fields read: news_kind, news, chance
    availability,   \* the category assigned, NotClassified before that
    market_target   \* build_market_context on the same fields: "listed",
                    \* "skipped", NotFiltered before that

availVars == <<player, availability, market_target>>

\* The price fields of a squad entry of get_full_squad_context
\* (fpl.py 182-183, 211-213)
VARIABLES
    pick,           \* the upstream prices in tenths: selling_price, now_cost
    squad_entry     \* price, now_cost, price_change once computed

priceVars == <<pick, squad_entry>>

\* The squad context as a whole: get_full_squad_context (fpl.py 108-268)
\* and its callers
VARIABLES
    upstream,       \* what the fetches of one request return: target_gw,
                    \* picks_now, picks_prev, catalogue; NoUpstream between
                    \* requests
    squad_ctx       \* the context returned, or that the call raised

ctxVars == <<upstream, squad_ctx>>

\* Malformed upstream records in /connect and /history
\* (main.py 132-153, 424-447)
VARIABLES
    raw,            \* the history as fetched: current (weekly records) and
                    \* chips, either of which may hold malformed records
    raw_resp        \* free_transfers of /connect or availability of /history

rejectVars == <<raw, raw_resp>>

\* The scheduler's loop: run (scheduler.py 29-60), with the upstream events
\* that get_gameweek_info reads (fpl.py 66-105)
VARIABLES
    now,              \* time of the next check, in check intervals
    is_next,          \* upstream: the event flagged is_next (NoGw: none)
    finished_gws,     \* upstream: events 1..finished_gws are flagged finished
    already_sent_gw,  \* run's local of that name (NoGw: None)
    rounds            \* per gameweek, the rounds of briefings sent (0, 1, 2+)

schedVars == <<now, is_next, finished_gws, already_sent_gw, rounds>>

\* The user store: save_user (database.py 38-60) behind /connect and /mode
VARIABLES
    users,          \* the users table, by team_id (NoRow: no row)
    last_op         \* the request handled last: op, team_id

userVars == <<users, last_op>>

\* One round of send_all_briefings (scheduler.py 63-87)
VARIABLES
    round_users,    \* the list get_all_active_users returned
    round_pos,      \* position of the for loop in the list (0: no round)
    attempted,      \* positions whose briefing was generated, in order
    emailed,        \* positions whose email was handed to the mailer
    failed          \* positions whose try block raised

roundVars == <<round_users, round_pos, attempted, emailed, failed>>

\* The parts of the state a free-transfer handler does not touch
FreeTransferOnly == UNCHANGED <<chipVars, availVars, priceVars, ctxVars, rejectVars, schedVars, userVars, roundVars>>

\* The parts of the state a chip handler does not touch
nonChipVars == <<vars, availVars, priceVars, ctxVars, rejectVars, schedVars, userVars, roundVars>>

\* The parts of the state the availability classifier does not touch
nonAvailVars == <<vars, chipVars, priceVars, ctxVars, rejectVars, schedVars, userVars, roundVars>>

\* The parts of the state the price computation does not touch
nonPriceVars == <<vars, chipVars, availVars, ctxVars, rejectVars, schedVars, userVars, roundVars>>

\* The parts of the state the squad context builder does not touch
nonCtxVars == <<vars, chipVars, availVars, priceVars, rejectVars, schedVars, userVars, roundVars>>

\* The parts of the state the handling of malformed records does not touch
nonRejectVars == <<vars, chipVars, availVars, priceVars, ctxVars, schedVars, userVars, roundVars>>

\* The parts of the state the scheduler does not touch
nonSchedVars == <<vars, chipVars, availVars, priceVars, ctxVars, rejectVars, userVars, roundVars>>

\* The parts of the state the user store does not touch
nonUserVars == <<vars, chipVars, availVars, priceVars, ctxVars, rejectVars, schedVars, roundVars>>

\* The parts of the state a round of briefings does not touch
nonRoundVars == <<vars, chipVars, availVars, priceVars, ctxVars, rejectVars, schedVars, userVars>>

allVars == <<vars, chipVars, availVars, priceVars, ctxVars, rejectVars, schedVars, userVars, roundVars>>


\* ------------------------------------------------- connect_team, the walk
\* free_used of one earlier record (main.py 136-141)
ConnectFreeUsed(balance, made, cost) ==
    IF cost = 0 THEN Min(made, balance) ELSE made - (cost \div HitCost)

\* ft = min(5, max(0, ft - free_used) + 1)  (main.py 142)
ConnectWalk(balance, made, cost) ==
    Min(MaxFT, Max(0, balance - ConnectFreeUsed(balance, made, cost)) + 1)

\* the open gameweek's own usage (main.py 144-152)
ConnectCurrentGW(balance, made_now, cost_now) ==
    IF cost_now = 0
    THEN Max(0, balance - made_now)
    ELSE Max(0, balance - (made_now - (cost_now \div HitCost)))

\* free_transfers = max(0, ft)  (main.py 153)
ConnectResult(balance) == Max(0, balance)

\* ------------------------------------------------------ debug_ft2, the walk
\* free_used = made if cost == 0 else max(0, made - (cost // 4))  (main.py 563)
DebugFreeUsed(made, cost) ==
    IF cost = 0 THEN made ELSE Max(0, made - (cost \div HitCost))

\* ft_after = min(5, ft - free_used + 1)  (main.py 564)
DebugFtAfter(balance, made, cost) ==
    Min(MaxFT, balance - DebugFreeUsed(made, cost) + 1)

\* ---------------------------------- get_full_squad_context, free transfers
\* variant of SquadFreeTransfers that tests the chip against "wildcard" only
SquadFreeTransfersWildcardOnly(has_picks, chip_played, ft_limit, made, cost) ==
    IF ~has_picks THEN SquadDefaultFT
    ELSE IF chip_played = "wildcard" THEN Unlimited
    ELSE IF ft_limit # NoLimit
         THEN Max(0, ft_limit - (IF cost = 0 THEN made ELSE 0))
    ELSE IF cost > 0 THEN 0
    ELSE IF made = 0 THEN 1
    ELSE Max(0, made - made)

\* fpl.py 134-173; made / cost are entry_history's event_transfers(_cost)
SquadFreeTransfers(has_picks, chip_played, ft_limit, made, cost) ==
    IF ~has_picks THEN SquadDefaultFT
    ELSE IF chip_played \in {"wildcard", "freehit"} THEN Unlimited
    ELSE IF ft_limit # NoLimit
         THEN Max(0, ft_limit - (IF cost = 0 THEN made ELSE 0))
    ELSE IF cost > 0 THEN 0
    ELSE IF made = 0 THEN 1
    ELSE Max(0, made - made)

\* history.get("event_transfers", 0) / history.get("event_transfers_cost", 0)
HistoryMade(rec) == IF rec = NoRecord THEN 0 ELSE rec.made
HistoryCost(rec) == IF rec = NoRecord THEN 0 ELSE rec.cost

\* The token after "FREE TRANSFERS:" in the squad prompt (fpl.py 333):
\* the word Unlimited when ftb == 99, the decimal digits of ftb otherwise.
FormatFreeTransfers(ftb) ==
    IF ftb = Unlimited
    THEN [word |-> "Unlimited", digits |-> 0]
    ELSE [word |-> "", digits |-> ftb]

\* build_prompt reads the token back: .replace("Unlimited", "99"), int()
\* (analysis.py 120-124)
ParseFreeTransfers(token) ==
    IF token.word = "Unlimited" THEN 99 ELSE token.digits


\* ------------------------------------------------------------------ state
Init ==
    /\ pc = "idle"
    /\ ft = StartFT
    /\ n = 0
    /\ gw_entry = NoRecord
    /\ latest = NoRecord
    /\ finished = FALSE
    /\ connect_resp = Unset
    /\ debug_resp = Unset
    /\ squad_ft = Unset
    /\ prompt_ft = Unset
    /\ limit = NoLimit
    /\ picks_present = FALSE
    /\ active_chip = NoChip
    /\ history = "none"

\* A handler that fetches the history starts from a fresh upstream snapshot:
\* what earlier requests returned for an older snapshot is dropped.
NoSquadContext ==
    /\ squad_ft' = Unset
    /\ prompt_ft' = Unset
    /\ limit' = NoLimit
    /\ picks_present' = FALSE
    /\ active_chip' = NoChip

\* /connect when the history request fails or is not a 200: free_transfers
\* keeps its default (main.py 113-118, 154-155)
ConnectHistoryFailed ==
    /\ FreeTransferOnly
    /\ history' = "failed"
    /\ pc = "idle"
    /\ connect_resp' = DefaultFT
    /\ latest' = NoRecord
    /\ gw_entry' = NoRecord
    /\ n' = 0
    /\ ft' = StartFT
    /\ finished' = FALSE
    /\ debug_resp' = Unset
    /\ NoSquadContext
    /\ UNCHANGED pc

\* /connect with an empty "current" list: `if current:` is false (main.py 120-121)
ConnectEmptyHistory ==
    /\ FreeTransferOnly
    /\ history' = "empty"
    /\ pc = "idle"
    /\ connect_resp' = DefaultFT
    /\ latest' = NoRecord
    /\ gw_entry' = NoRecord
    /\ n' = 0
    /\ ft' = StartFT
    /\ finished' = FALSE
    /\ debug_resp' = Unset
    /\ NoSquadContext
    /\ UNCHANGED pc

\* /connect with a non-empty list: ft = 1, enter the loop (main.py 121-133)
ConnectBegin ==
    /\ FreeTransferOnly
    /\ history' = "records"
    /\ pc = "idle"
    /\ pc' = "connect"
    /\ ft' = StartFT
    /\ n' = 0
    /\ gw_entry' = NoRecord
    /\ latest' = NoRecord
    /\ finished' = FALSE
    /\ connect_resp' = Unset
    /\ debug_resp' = Unset
    /\ NoSquadContext

\* one iteration of `for gw_entry in current[:-1]` (main.py 133-142)
ConnectStep ==
    /\ FreeTransferOnly
    /\ pc = "connect"
    /\ n < MaxLen - 1
    /\ \E rec \in Records :
         /\ gw_entry' = rec
         /\ ft' = ConnectWalk(ft, rec.made, rec.cost)
    /\ n' = n + 1
    /\ UNCHANGED <<pc, latest, finished, connect_resp, debug_resp,
                   squad_ft, prompt_ft, limit, picks_present, active_chip, history>>

\* the loop is over: cur = current[-1], subtract its usage, respond
\* (main.py 143-166)
ConnectCurrent ==
    /\ FreeTransferOnly
    /\ pc = "connect"
    /\ \E rec \in Records, fin \in BOOLEAN :
         /\ latest' = rec
         /\ finished' = fin
         /\ ft' = ConnectCurrentGW(ft, rec.made, rec.cost)
    /\ connect_resp' = ConnectResult(ft')
    /\ gw_entry' = NoRecord
    /\ pc' = "idle"
    /\ UNCHANGED <<n, debug_resp,
                   squad_ft, prompt_ft, limit, picks_present, active_chip, history>>

\* /debug-ft2: ft = 1, enter the loop over the whole list (main.py 553-559)
DebugBegin ==
    /\ FreeTransferOnly
    /\ history' = "none"
    /\ pc = "idle"
    /\ pc' = "debug_ft2"
    /\ ft' = StartFT
    /\ n' = 0
    /\ gw_entry' = NoRecord
    /\ latest' = NoRecord
    /\ finished' = FALSE
    /\ connect_resp' = Unset
    /\ debug_resp' = Unset
    /\ NoSquadContext

\* one iteration of `for gw in current` (main.py 559-569)
DebugStep ==
    /\ FreeTransferOnly
    /\ pc = "debug_ft2"
    /\ n < MaxLen
    /\ \E rec \in Records :
         /\ gw_entry' = rec
         /\ ft' = DebugFtAfter(ft, rec.made, rec.cost)
    /\ n' = n + 1
    /\ UNCHANGED <<pc, latest, finished, connect_resp, debug_resp,
                   squad_ft, prompt_ft, limit, picks_present, active_chip, history>>

\* the loop is over: return calculated_ft (main.py 571-574)
DebugReturn ==
    /\ FreeTransferOnly
    /\ history' = (IF n = 0 THEN "empty" ELSE "records")
    /\ pc = "debug_ft2"
    /\ debug_resp' = ft
    /\ gw_entry' = NoRecord
    /\ pc' = "idle"
    /\ UNCHANGED <<ft, n, latest, finished, connect_resp,
                   squad_ft, prompt_ft, limit, picks_present, active_chip>>

\* generate_recommendation: the squad context for the snapshot whose open
\* gameweek record is `latest` (entry_history of the picks response is that
\* record, active_chip its chip), then the prompt line and its parse
\* (analysis.py 24-28, fpl.py 134-173, 333, analysis.py 113-124).
\* has_picks is false when neither the target gameweek nor the one before it
\* gave a picks response (fpl.py 121-124, 137).
GenerateRecommendation ==
    /\ FreeTransferOnly
    /\ pc = "idle"
    /\ \E has_picks \in BOOLEAN, ft_limit \in (0..MaxLimit) \cup {NoLimit}, chip \in Chips :
         /\ latest # NoRecord => chip = latest.chip
         /\ picks_present' = has_picks
         /\ limit' = ft_limit
         /\ active_chip' = chip
         /\ squad_ft' = SquadFreeTransfers(has_picks, chip, ft_limit,
                                           HistoryMade(latest), HistoryCost(latest))
    /\ prompt_ft' = ParseFreeTransfers(FormatFreeTransfers(squad_ft'))
    /\ UNCHANGED <<pc, ft, n, gw_entry, latest, finished, connect_resp, debug_resp, history>>

Next ==
    \/ ConnectHistoryFailed
    \/ ConnectEmptyHistory
    \/ ConnectBegin
    \/ ConnectStep
    \/ ConnectCurrent
    \/ DebugBegin
    \/ DebugStep
    \/ DebugReturn
    \/ GenerateRecommendation



\* ================================================================ properties
\* The free-transfer rules as section 4.1 of the specification words them.
\* freeUsed = transfersMade if transferCost == 0,
\*            else max(0, transfersMade - transferCost div 4)
FreeUsed(made, cost) ==
    IF cost = 0 THEN made ELSE Max(0, made - (cost \div 4))

\* balance = min(5, max(0, balance - freeUsed) + 1)
Granted(balance, made, cost) ==
    Min(5, Max(0, balance - FreeUsed(made, cost)) + 1)

UnlimitedChips == {"wildcard", "freehit"}

\* C1: in both history walks (connect_team, debug_ft2) the balance after
\* every record is between 0 and 5.
C1_WalkBalanceWithinBounds ==
    pc \in {"connect", "debug_ft2"} => ft \in 0..5

\* C2: the free_transfers value /connect returns is between 0 and 5.
C2_ConnectResponseWithinBounds ==
    connect_resp # Unset => connect_resp \in 0..5

\* C3: every iteration of the walk of connect_team takes the balance to
\* min(5, max(0, balance - freeUsed) + 1) with the specification's freeUsed.
C3_ConnectStepIsGrantedFold ==
    [][(pc = "connect" /\ pc' = "connect")
         => ft' = Granted(ft, gw_entry'.made, gw_entry'.cost)]_vars

\* C4: when the most recent record is the open gameweek, /connect reports
\* the balance folded over the earlier records minus that record's freeUsed
\* (not below 0), without the +1 grant.
C4_OpenGameweekSubtractedOnce ==
    [][(pc = "connect" /\ pc' = "idle" /\ ~finished')
         => connect_resp' = Max(0, ft - FreeUsed(latest'.made, latest'.cost))]_vars

\* C5: when every record is a completed gameweek the last one too is folded
\* with the +1 grant; for a one-record list the result is the grant applied
\* to the starting balance 1 (made 2, cost 4 gives 1).
C5_CompletedLastRecordGranted ==
    (connect_resp # Unset /\ history = "records" /\ n = 0 /\ finished)
        => connect_resp = Granted(1, latest.made, latest.cost)

\* C6: with a reported transfer limit and no Wildcard / Free Hit active the
\* squad context's free transfers are the limit minus the penalty-free
\* transfers spent in the open gameweek, never below 0.
C6_LimitMinusPenaltyFree ==
    (squad_ft # Unset /\ picks_present /\ limit # NoLimit
       /\ active_chip \notin UnlimitedChips)
        => squad_ft = Max(0, limit - FreeUsed(HistoryMade(latest), HistoryCost(latest)))

\* C7: when upstream reports a transfer limit, /connect and the squad
\* context report the same free-transfer count for the same upstream data.
C7_ConnectAgreesWithSquadContext ==
    (connect_resp # Unset /\ history = "records" /\ squad_ft # Unset
       /\ picks_present /\ limit # NoLimit /\ active_chip \notin UnlimitedChips)
        => connect_resp = squad_ft

\* C8: the squad context reports the sentinel 99 exactly when the picks
\* report an active Wildcard or Free Hit, whatever the limit, transfers made
\* and cost are; otherwise it reports a finite count; and the prompt line
\* read back by build_prompt gives the same value.
C8_UnlimitedSentinel ==
    squad_ft # Unset =>
        /\ (picks_present /\ active_chip \in UnlimitedChips) => squad_ft = 99
        /\ ~(picks_present /\ active_chip \in UnlimitedChips)
              => (squad_ft >= 0 /\ squad_ft < 99)
        /\ prompt_ft = squad_ft

\* C8 witness: a free hit is active while a limit is reported and transfers
\* were made at a cost in the open gameweek.
C8_Witness ==
    /\ squad_ft = 99
    /\ active_chip = "freehit"
    /\ limit = 2
    /\ latest # NoRecord /\ latest.made = 2 /\ latest.cost = 4

\* C9: a completed gameweek in which a Wildcard or Free Hit was played (its
\* transfers cost nothing) leaves the balance as if no transfers had been
\* made in it, in the walk of connect_team and in that of debug_ft2.
C9_ChipWeekDoesNotConsume ==
    [][/\ (pc = "connect" /\ pc' = "connect"
             /\ gw_entry'.chip \in UnlimitedChips /\ gw_entry'.cost = 0)
            => ft' = ConnectWalk(ft, 0, 0)
       /\ (pc = "debug_ft2" /\ pc' = "debug_ft2"
             /\ gw_entry'.chip \in UnlimitedChips /\ gw_entry'.cost = 0)
            => ft' = DebugFtAfter(ft, 0, 0)]_vars

\* C10: with an empty weekly record list the balance is exactly 1, in the
\* /connect response and in the /debug-ft2 response.
C10_EmptyHistoryGivesOne ==
    history = "empty" =>
        /\ connect_resp # Unset => connect_resp = 1
        /\ debug_resp # Unset => debug_resp = 1

\* C10 witness: /connect answered for an empty list.
C10_Witness ==
    history = "empty" /\ connect_resp # Unset /\ pc = "idle"


\* =========================================================================
\* Chip availability per season half: get_history, get_briefing, debug_chips
\* =========================================================================
MaxChipLog == 2      \* longest chip usage log

FirstHalfEnd         == 19   \* half == 1 and ev <= 19
SecondHalfStart      == 20   \* half == 2 and ev >= 20
DefaultCurrentEvent  == 19   \* current[-1]["event"] if current else 19
DebugDefaultEvent    == 0    \* last_event = current[-1]["event"] if current else 0

NoEvent == 0 - 1             \* current == []

ChipNames    == {"wildcard", "freehit", "bboost", "3xc"}
Halves       == {1, 2}
ChipKeys     == ChipNames \X Halves       \* "<name>_h<half>"
SampleEvents == {15, 19, 20, 38}          \* gameweeks on both sides of the boundary
ChipEvents   == [name : ChipNames, event : SampleEvents]

\* variant of ChipUsedInHalf whose first half stops before gameweek 19
ChipUsedInHalfBefore19(log, name, half) ==
    \E i \in 1..Len(log) :
        /\ log[i].name = name
        /\ \/ (half = 1 /\ log[i].event < FirstHalfEnd)
           \/ (half = 2 /\ log[i].event >= SecondHalfStart)

\* variant of ChipUsedInHalf that does not look at the half
ChipUsedInHalfAnyHalf(log, name, half) ==
    \E i \in 1..Len(log) : log[i].name = name

\* variant of ChipUsedInHalf that looks at the newest log entry only
ChipUsedInHalfNewestOnly(log, name, half) ==
    /\ Len(log) > 0
    /\ log[Len(log)].name = name
    /\ \/ (half = 1 /\ log[Len(log)].event <= FirstHalfEnd)
       \/ (half = 2 /\ log[Len(log)].event >= SecondHalfStart)

\* get_history.chip_used_in_half: the for loop from entry i on (main.py 426-434)
RECURSIVE ChipUsedInHalfFrom(_, _, _, _)
ChipUsedInHalfFrom(log, i, name, half) ==
    IF i > Len(log) THEN FALSE
    ELSE IF log[i].name # name THEN ChipUsedInHalfFrom(log, i + 1, name, half)
    ELSE IF half = 1 /\ log[i].event <= FirstHalfEnd THEN TRUE
    ELSE IF half = 2 /\ log[i].event >= SecondHalfStart THEN TRUE
    ELSE ChipUsedInHalfFrom(log, i + 1, name, half)

\* get_history.chip_used_in_half(name, half) (main.py 424-434)
ChipUsedInHalf(log, name, half) == ChipUsedInHalfFrom(log, 1, name, half)

\* _ch(name, half) of get_briefing and of debug_chips (main.py 200-204, 488-492)
Ch(log, name, half) ==
    \E i \in 1..Len(log) :
        /\ log[i].name = name
        /\ \/ (half = 1 /\ log[i].event <= FirstHalfEnd)
           \/ (half = 2 /\ log[i].event >= SecondHalfStart)

\* chip_availability of /history (main.py 436-447)
HistoryChipAvailability(log) ==
    [key \in ChipKeys |-> ~ChipUsedInHalf(log, key[1], key[2])]

\* chip_availability of /briefing and /debug-chips (main.py 206-214, 499-508)
ChChipAvailability(log) ==
    [key \in ChipKeys |-> ~Ch(log, key[1], key[2])]

\* variant of InSecondHalf that starts the second half after gameweek 20
InSecondHalfAfter20(ev) == ev > SecondHalfStart

\* in_second_half = current_event >= 20 (main.py 198, 451, 486)
InSecondHalf(ev) == ev >= SecondHalfStart

\* current_event of /history and /briefing (main.py 197, 450)
CurrentEventOr19(ev) == IF ev # NoEvent THEN ev ELSE DefaultCurrentEvent

\* last_event of /debug-chips (main.py 485)
LastEventOr0(ev) == IF ev # NoEvent THEN ev ELSE DebugDefaultEvent

\* chip_availability = {} (main.py 188)
EmptyDict == [key \in {} |-> TRUE]

NoChipResponse ==
    [status |-> "none", chip_availability |-> EmptyDict, in_second_half |-> FALSE]

\* no prompt built
NoPromptChips == [built |-> FALSE, unknown |-> FALSE, second_half |-> FALSE,
                  listed |-> {}]

\* squad_ctx.get('in_second_half', False) at fpl.py 335: the dict that
\* get_full_squad_context returns (fpl.py 259-268) has no such key
SquadCtxInSecondHalf == FALSE

\* _format_chips_available (fpl.py 288-301): "Unknown" for an empty dict,
\* else the chips whose entry of the window's half is true
FormatChipsAvailable(chip_availability, in_h2) ==
    IF chip_availability = EmptyDict
    THEN [built |-> TRUE, unknown |-> TRUE, second_half |-> in_h2, listed |-> {}]
    ELSE [built |-> TRUE, unknown |-> FALSE, second_half |-> in_h2,
          listed |-> {name \in ChipNames :
                        chip_availability[<<name, IF in_h2 THEN 2 ELSE 1>>]}]

ChipInit ==
    /\ prompt_chips = NoPromptChips
    /\ chips = <<>>
    /\ current_event = NoEvent
    /\ history_resp = NoChipResponse
    /\ briefing_resp = NoChipResponse
    /\ debug_chips_resp = NoChipResponse

\* upstream changed: the responses given for the older data are dropped
NoChipResponses ==
    /\ history_resp' = NoChipResponse
    /\ briefing_resp' = NoChipResponse
    /\ debug_chips_resp' = NoChipResponse
    /\ prompt_chips' = NoPromptChips

\* upstream: the manager plays a chip, the log gets one more entry
PlayChip ==
    /\ Len(chips) < MaxChipLog
    /\ \E c \in ChipEvents : chips' = Append(chips, c)
    /\ NoChipResponses
    /\ UNCHANGED <<current_event, nonChipVars>>

\* upstream: a later gameweek becomes the most recent weekly record
NextGameweek ==
    /\ \E ev \in SampleEvents :
         /\ ev > current_event
         /\ current_event' = ev
    /\ NoChipResponses
    /\ UNCHANGED <<chips, nonChipVars>>

\* /history (main.py 385-386, 424-458)
GetHistory ==
    /\ history_resp' =
         [status |-> "ok",
          chip_availability |-> HistoryChipAvailability(chips),
          in_second_half |-> InSecondHalf(CurrentEventOr19(current_event))]
    /\ UNCHANGED <<chips, current_event, briefing_resp, debug_chips_resp, prompt_chips,
                   nonChipVars>>

\* /briefing, the chip part (main.py 186-224): the history request gives a
\* 200 or it does not (other status, exception); generate_recommendation
\* then builds the prompt (analysis.py 24-25, fpl.py 335)
GetBriefingChips ==
    /\ \E ok \in BOOLEAN :
         briefing_resp' =
           IF ok
           THEN [status |-> "ok",
                 chip_availability |-> ChChipAvailability(chips),
                 in_second_half |-> InSecondHalf(CurrentEventOr19(current_event))]
           ELSE [status |-> "failed", chip_availability |-> EmptyDict,
                 in_second_half |-> FALSE]
    /\ prompt_chips' = FormatChipsAvailable(briefing_resp'.chip_availability,
                                            SquadCtxInSecondHalf)
    /\ UNCHANGED <<chips, current_event, history_resp, debug_chips_resp, nonChipVars>>

\* /debug-chips (main.py 483-509)
DebugChips ==
    /\ debug_chips_resp' =
         [status |-> "ok",
          chip_availability |-> ChChipAvailability(chips),
          in_second_half |-> InSecondHalf(LastEventOr0(current_event))]
    /\ UNCHANGED <<chips, current_event, history_resp, briefing_resp, prompt_chips,
                   nonChipVars>>

ChipNext ==
    \/ PlayChip
    \/ NextGameweek
    \/ GetHistory
    \/ GetBriefingChips
    \/ DebugChips

\* ---------------------------------------------------- properties (chips)
\* Season halves as section 3 of the specification words them:
\* First = events 1-19, Second = events >= 20.
InHalfRange(ev, half) ==
    IF half = 1 THEN ev \in 1..19 ELSE ev >= 20

HalfOf(ev) == IF ev >= 20 THEN 2 ELSE 1

UsedInHalf(log, name, half) ==
    \E i \in 1..Len(log) : log[i].name = name /\ InHalfRange(log[i].event, half)

\* C11: for each of the 4 chip kinds and each half, /history and /briefing
\* report the chip unavailable if and only if the log holds at least one
\* usage event of that kind in that half's range, however many; with an
\* empty log all 8 entries are true.
C11_UnavailableIffUsedInHalf ==
    /\ history_resp.status = "ok" =>
         \A key \in ChipKeys :
            history_resp.chip_availability[key] = ~UsedInHalf(chips, key[1], key[2])
    /\ briefing_resp.status = "ok" =>
         \A key \in ChipKeys :
            briefing_resp.chip_availability[key] = ~UsedInHalf(chips, key[1], key[2])
    /\ (chips = <<>> /\ history_resp.status = "ok") =>
         \A key \in ChipKeys : history_resp.chip_availability[key]

\* C11 witness: both endpoints answered for a log that holds the same chip
\* twice in the first half, one of the two at gameweek 19.
C11_Witness ==
    /\ history_resp.status = "ok"
    /\ briefing_resp.status = "ok"
    /\ Len(chips) = 2
    /\ chips[1].name = chips[2].name
    /\ chips[1].event = 15
    /\ chips[2].event = 19

\* C12: a usage event added for kind K in one half leaves the availability
\* of K in the other half and of every other kind in both halves as /history
\* reported it before; a Wildcard at event 15 alone gives wildcard first half
\* false, second half true, Free Hit true in both halves.
C12_AddedChipFrame ==
    [][/\ (chips' # chips /\ history_resp.status = "ok") =>
            \A key \in ChipKeys \ {<<chips'[Len(chips')].name,
                                     HalfOf(chips'[Len(chips')].event)>>} :
               HistoryChipAvailability(chips')[key] = history_resp.chip_availability[key]
       /\ (history_resp.status = "ok"
             /\ chips = <<[name |-> "wildcard", event |-> 15]>>) =>
            /\ ~history_resp.chip_availability[<<"wildcard", 1>>]
            /\ history_resp.chip_availability[<<"wildcard", 2>>]
            /\ history_resp.chip_availability[<<"freehit", 1>>]
            /\ history_resp.chip_availability[<<"freehit", 2>>]]_allVars

\* C12 witness: /history answered for the log holding a Wildcard at event 15.
C12_Witness ==
    /\ history_resp.status = "ok"
    /\ chips = <<[name |-> "wildcard", event |-> 15]>>

\* C13: as the log grows by appended events, an entry /history reported
\* unavailable is unavailable again when availability is recomputed from the
\* grown log (never false back to true, so true to false at most once).
C13_NeverAvailableAgain ==
    [][\A key \in ChipKeys :
          (history_resp.status = "ok" /\ ~history_resp.chip_availability[key])
             => ~HistoryChipAvailability(chips')[key]]_allVars

\* C13 witness: /history answered after a second event of another kind was
\* appended to a log whose first event had made an entry unavailable.
C13_Witness ==
    /\ history_resp.status = "ok"
    /\ Len(chips) = 2
    /\ chips[1].name # chips[2].name
    /\ ~history_resp.chip_availability[<<chips[1].name, HalfOf(chips[1].event)>>]

\* C14: in_second_half of /history, /briefing and /debug-chips is true if
\* and only if the most recent weekly record has event number 20 or more
\* (false when the history is empty), so the three agree.
C14_SecondHalfIffEvent20 ==
    \A resp \in {history_resp, briefing_resp, debug_chips_resp} :
        resp.status = "ok" =>
            resp.in_second_half = (current_event # NoEvent /\ current_event >= 20)

\* C14 witness: the three endpoints answered while the most recent weekly
\* record is gameweek 20.
C14_Witness ==
    /\ history_resp.status = "ok"
    /\ briefing_resp.status = "ok"
    /\ debug_chips_resp.status = "ok"
    /\ current_event = 20

\* =========================================================================
\* Player availability: the classifier of get_full_squad_context
\* (fpl.py 185-202)
\* =========================================================================

\* Longest status note, in words
MaxNoteWords == 2

\* Largest chance_of_playing_next_round, a percentage
MaxChance == 100

MajorDoubtMax == 25
DoubtMax == 75

\* chance_of_playing_next_round is None (null or absent upstream)
NoChance == 0 - 1

\* The words a status note is made of; the capitalised forms are what
\* news.lower() has to fold
Words == {"Suspended", "suspended", "Injured", "injured", "Knock", "knock"}

Notes == UNION {[1..k -> Words] : k \in 0..MaxNoteWords}

\* The "news" key is missing, is null, or holds a text
NewsKinds == {"absent", "null", "text"}

Players ==
    {p \in [news_kind : NewsKinds, news : Notes,
            chance : {NoChance} \cup (0..MaxChance)] :
        p.news_kind # "text" => p.news = <<>>}

\* players_by_id.get(pick["element"], {}) for an element not in bootstrap
NoPlayer == [news_kind |-> "absent", news |-> <<>>, chance |-> NoChance]

Categories ==
    {"suspended", "out", "major_doubt", "doubt", "minor_concern", "available"}

NotClassified == "not_classified"

\* AttributeError of news.lower() on None
Raised == "raised"

\* str.lower, word by word
LowerWord(w) ==
    CASE w = "Suspended" -> "suspended"
      [] w = "Injured"   -> "injured"
      [] w = "Knock"     -> "knock"
      [] OTHER           -> w

Lower(text) == [i \in 1..Len(text) |-> LowerWord(text[i])]

\* word in text
Contains(text, word) == \E i \in 1..Len(text) : text[i] = word

Str(text) == [none |-> FALSE, text |-> text]
NoneStr == [none |-> TRUE, text |-> <<>>]

\* player.get("news", "") alone, without the trailing `or ""`
NewsNoDefault(p) ==
    IF p.news_kind = "text" THEN Str(p.news)
    ELSE IF p.news_kind = "null" THEN NoneStr
    ELSE Str(<<>>)

\* player.get("news", "") or ""
News(p) ==
    IF p.news_kind = "text" THEN Str(p.news) ELSE Str(<<>>)

\* the chain with the note test ahead of the numeric tests
AvailabilityNoteFirst(news, chance) ==
    IF chance = 0 THEN "suspended"
    ELSE IF news.none THEN Raised
    ELSE IF Contains(Lower(news.text), "suspended") THEN "suspended"
    ELSE IF Contains(Lower(news.text), "injured") THEN "out"
    ELSE IF news.text # <<>> THEN "minor_concern"
    ELSE IF chance # NoChance /\ chance <= MajorDoubtMax THEN "major_doubt"
    ELSE IF chance # NoChance /\ chance <= DoubtMax THEN "doubt"
    ELSE "available"

\* the if / elif chain of lines 191-202; `or` short-circuits, so
\* news.lower() is not evaluated when chance_playing == 0
Availability(news, chance) ==
    IF chance = 0 THEN "suspended"
    ELSE IF news.none THEN Raised
    ELSE IF Contains(Lower(news.text), "suspended") THEN "suspended"
    ELSE IF \/ chance = 0
            \/ Contains(Lower(news.text), "injured")
            \/ (chance # NoChance /\ chance = 0) THEN "out"
    ELSE IF chance # NoChance /\ chance <= MajorDoubtMax THEN "major_doubt"
    ELSE IF chance # NoChance /\ chance <= DoubtMax THEN "doubt"
    ELSE IF news.text # <<>> THEN "minor_concern"
    ELSE "available"

MarketMinChance == 25

NotFiltered == "not_filtered"

\* the availability filter of build_market_context (analysis.py 74-85):
\* TRUE when none of the four `continue` is taken
PassesAvailabilityFilter(p) ==
    LET news == Lower(News(p).text)
        chance == p.chance
    IN  /\ ~(chance = 0)
        /\ ~Contains(news, "suspended")
        /\ ~(Contains(news, "injured") /\ chance # NoChance
                /\ chance <= MarketMinChance)
        /\ ~(chance # NoChance /\ chance < MarketMinChance)

AvailInit ==
    /\ player = NoPlayer
    /\ availability = NotClassified
    /\ market_target = NotFiltered

\* line 176: player = players_by_id.get(pick["element"], {}); NoPlayer
\* stands for the empty dict and for the pick not read yet
LoadPlayer ==
    /\ player = NoPlayer
    /\ availability = NotClassified
    /\ market_target = NotFiltered
    /\ \E p \in Players : player' = p
    /\ UNCHANGED <<availability, market_target, nonAvailVars>>

\* lines 186-202
ClassifyAvailability ==
    /\ availability = NotClassified
    /\ availability' = Availability(News(player), player.chance)
    /\ UNCHANGED <<player, market_target, nonAvailVars>>

\* line 204: squad.append(...), then the loop moves to the next pick
AppendToSquad ==
    /\ availability # NotClassified
    /\ player' = NoPlayer
    /\ availability' = NotClassified
    /\ market_target' = NotFiltered
    /\ UNCHANGED nonAvailVars

\* build_market_context on a catalogue player with these fields
\* (analysis.py 65-91): the position, ownership, minutes and form tests pass
\* or not, then the availability filter decides
FilterTarget ==
    /\ market_target = NotFiltered
    /\ \E others_pass \in BOOLEAN :
         market_target' =
            IF others_pass /\ PassesAvailabilityFilter(player)
            THEN "listed" ELSE "skipped"
    /\ UNCHANGED <<player, availability, nonAvailVars>>

AvailNext == LoadPlayer \/ ClassifyAvailability \/ AppendToSquad \/ FilterTarget

\* --------------------------------------------- properties (availability)
SuspendedForms == {"Suspended", "suspended"}
InjuredForms == {"Injured", "injured"}

Mentions(text, forms) == \E i \in 1..Len(text) : text[i] \in forms

Classified == availability # NotClassified

\* rule 1 of section 4.3: fitness 0 or a note containing "suspended"
Rule1Matches ==
    player.chance = 0 \/ Mentions(player.news, SuspendedForms)

\* rule 2 of section 4.3
Rule2Matches ==
    /\ Mentions(player.news, InjuredForms)
    /\ (player.chance = NoChance \/ player.chance <= 25)

\* rules 3 and 4 of section 4.3
Rule3Matches == player.chance # NoChance /\ player.chance < 25
Rule4Matches == player.chance # NoChance /\ player.chance < 75

NeitherWord ==
    /\ ~Mentions(player.news, SuspendedForms)
    /\ ~Mentions(player.news, InjuredForms)

\* C15: for every fitness value in {null, 0..100} and every status note,
\* an absent or null one included, the classifier returns one of the six
\* categories and never raises.
C15_ClassifierTotal ==
    Classified => availability \in Categories

\* C15 witness: a player with a null note and a null fitness value has been
\* classified.
C15_Witness ==
    /\ Classified
    /\ player.news_kind = "null"
    /\ player.chance = NoChance

\* C16: when fitness is 0 or the note contains "suspended" in any letter
\* case, the result is Suspended if the note mentions suspension and Out
\* otherwise (fitness 0 without a suspension note is Out).
C16_ZeroFitnessOrSuspendedNote ==
    (Classified /\ Rule1Matches) =>
        availability = IF Mentions(player.news, SuspendedForms)
                       THEN "suspended" ELSE "out"

\* C17: when rule 1 does not match and the note contains "injured", the
\* result is Out exactly when fitness is null or at most 25.
C17_InjuredOutOnlyUpTo25 ==
    (Classified /\ ~Rule1Matches /\ Mentions(player.news, InjuredForms)) =>
        (availability = "out"
            <=> (player.chance = NoChance \/ player.chance <= 25))

\* C18: for a non-null, non-zero fitness and a note with neither word, the
\* result is MajorDoubt iff fitness < 25 and Doubt iff 25 <= fitness < 75.
C18_StrictThresholds ==
    (Classified /\ player.chance # NoChance /\ player.chance # 0 /\ NeitherWord) =>
        /\ availability = "major_doubt" <=> player.chance < 25
        /\ availability = "doubt" <=> (player.chance >= 25 /\ player.chance < 75)

\* C19: fitness 1..24 with a note containing neither word is MajorDoubt
\* whatever else the note says; MinorConcern is returned only for a
\* non-empty note, Available only for an empty one, and both only when none
\* of rules 1-4 matched; null fitness with an empty note is Available.
C19_NumericOutranksNote ==
    Classified =>
        /\ (player.chance \in 1..24 /\ NeitherWord) => availability = "major_doubt"
        /\ availability = "minor_concern" =>
              /\ player.news # <<>>
              /\ ~(Rule1Matches \/ Rule2Matches \/ Rule3Matches \/ Rule4Matches)
        /\ availability = "available" =>
              /\ player.news = <<>>
              /\ ~(Rule1Matches \/ Rule2Matches \/ Rule3Matches \/ Rule4Matches)
        /\ (player.chance = NoChance /\ player.news = <<>>) =>
              availability = "available"

\* C19 witness: the 20%-fit player whose note says "knock" is MajorDoubt.
C19_Witness ==
    /\ availability = "major_doubt"
    /\ player.chance = 20
    /\ player.news = <<"knock">>

\* C28: a player that build_market_context lists as a transfer target is
\* one the classifier labels Available or MinorConcern for the same fitness
\* value and note.
C28_TargetsAreAvailable ==
    (Classified /\ market_target = "listed") =>
        availability \in {"available", "minor_concern"}

\* =========================================================================
\* Prices of a squad entry: get_full_squad_context (fpl.py 182-183, 211-213)
\* =========================================================================

\* Largest upstream price, in tenths (the unit of now_cost and selling_price)
MaxPrice == 12

\* Largest error of one floating-point operation, in units of 1/FinePerTenth
\* of a tenth
MaxFloatErr == 1

\* Resolution at which a float is followed: units of 0.001
FinePerTenth == 100

\* the key is missing from the pick / the player
NoPrice == 0 - 1

Prices == {NoPrice} \cup (0..MaxPrice)

Picks == [selling_price : Prices, now_cost : Prices]

FloatErrs == (0 - MaxFloatErr)..MaxFloatErr

NoEntry == [computed |-> FALSE, price |-> 0, now_cost |-> 0, price_change |-> 0]

\* player.get("now_cost", 0)
NowCostOr0(p) == IF p.now_cost # NoPrice THEN p.now_cost ELSE 0

\* pick.get("selling_price", player.get("now_cost", 0))
SellingPriceOrNowCost(p) ==
    IF p.selling_price # NoPrice THEN p.selling_price ELSE NowCostOr0(p)

\* x / 10: the float next to x tenths, err away from it
Div10(tenths, err) == tenths * FinePerTenth + err

\* a - b on floats, err away from the exact difference
FloatSub(a, b, err) == a - b + err

\* cutting the digits after the first decimal instead of rounding
Truncate1(x) == x \div FinePerTenth

\* round(x, 1), in tenths: the nearest tenth, a tie to the even one
Round1(x) ==
    LET q == x \div FinePerTenth
        r == x % FinePerTenth
    IN  IF 2 * r > FinePerTenth \/ (2 * r = FinePerTenth /\ q % 2 = 1)
        THEN q + 1 ELSE q

\* round(now_cost - selling_price, 1)
PriceChange(now_cost, selling_price, err) ==
    Round1(FloatSub(now_cost, selling_price, err))

PriceInit ==
    /\ pick = [selling_price |-> NoPrice, now_cost |-> NoPrice]
    /\ squad_entry = NoEntry

\* the next pick of the loop
LoadPick ==
    /\ \E p \in Picks : pick' = p
    /\ squad_entry' = NoEntry
    /\ UNCHANGED nonPriceVars

\* the price fields of the entry appended for pick p (lines 182-183 and
\* 211-213); equal integers divide to the same float
SquadEntryPrices(p, e1, e2, e3) ==
    LET nc == Div10(NowCostOr0(p), e2)
        sp == Div10(SellingPriceOrNowCost(p),
                    IF SellingPriceOrNowCost(p) = NowCostOr0(p)
                    THEN e2 ELSE e1)
    IN  [computed     |-> TRUE,
         price        |-> sp,
         now_cost     |-> nc,
         price_change |-> PriceChange(nc, sp, e3)]

ComputePrices ==
    /\ ~squad_entry.computed
    /\ \E e1, e2, e3 \in FloatErrs :
         squad_entry' = SquadEntryPrices(pick, e1, e2, e3)
    /\ UNCHANGED <<pick, nonPriceVars>>

PriceNext == LoadPick \/ ComputePrices

\* --------------------------------------------------- properties (prices)
\* C20: the price delta of a pick carrying both prices is the market price
\* minus the selling price, in steps of 0.1, and computing it with the two
\* prices swapped gives its negation.
C20_PriceDeltaAntisymmetric ==
    (squad_entry.computed /\ pick.selling_price # NoPrice /\ pick.now_cost # NoPrice) =>
        /\ squad_entry.price_change = pick.now_cost - pick.selling_price
        /\ \A e \in FloatErrs :
              PriceChange(squad_entry.price, squad_entry.now_cost, e)
                 = 0 - squad_entry.price_change

\* C20 witness: a pick bought below its market price, both prices off their
\* decimal value as floats, has its delta computed.
C20_Witness ==
    /\ squad_entry.computed
    /\ pick.selling_price # NoPrice
    /\ pick.now_cost > pick.selling_price
    /\ squad_entry.price < pick.selling_price * FinePerTenth
    /\ squad_entry.now_cost > pick.now_cost * FinePerTenth

\* C21: a pick without a selling price gets the market price as its price,
\* and its entry differs from every entry the same pick would get with a
\* reported selling price equal to the market price (the flag "no sell price
\* reported" is what tells them apart).
C21_FallbackPriceFlagged ==
    (squad_entry.computed /\ pick.selling_price = NoPrice /\ pick.now_cost # NoPrice) =>
        /\ squad_entry.price = squad_entry.now_cost
        /\ \A e1, e2, e3 \in FloatErrs :
              squad_entry # SquadEntryPrices(
                  [selling_price |-> NowCostOr0(pick), now_cost |-> pick.now_cost],
                  e1, e2, e3)

\* =========================================================================
\* The squad context as a whole: get_full_squad_context (fpl.py 108-268),
\* called by /chat, /squad (main.py 285-286, 312-313) and by
\* generate_recommendation (analysis.py 24)
\* =========================================================================

\* Most picks in one picks response
MaxPicks == 2

\* Largest gameweek id the upstream reports as current
MaxGw == 3

DefaultTargetGw == 29

\* gw_info is None or names no gameweek
NoGw == 0

\* a pick without the "element" key
NoElement == 0

\* player ids of the catalogue, and one id the catalogue does not hold
CatalogueIds == {1, 2}
UnknownId == 3

PickElements == CatalogueIds \cup {UnknownId, NoElement}

\* get_team_picks returned None
NoPicks == <<0 - 1>>

PicksResponses ==
    {NoPicks} \cup UNION {[1..k -> PickElements] : k \in 0..MaxPicks}

Upstreams ==
    [target_gw : {NoGw} \cup (1..MaxGw),
     picks_now : PicksResponses,
     picks_prev : PicksResponses,
     catalogue : BOOLEAN]

NoUpstream ==
    [target_gw |-> NoGw, picks_now |-> NoPicks, picks_prev |-> NoPicks,
     catalogue |-> FALSE]

NoContext == [status |-> "none", squad |-> <<>>, current_gw |-> NoGw]

\* an exception left get_full_squad_context (KeyError, AttributeError)
RaisedContext == [status |-> "raised", squad |-> <<>>, current_gw |-> NoGw]

\* line 119: (current or next_gw or {}).get("id", 29)
TargetGw(u) == IF u.target_gw # NoGw THEN u.target_gw ELSE DefaultTargetGw

\* lines 121-124
PicksData(u) ==
    IF u.picks_now = NoPicks /\ TargetGw(u) > 1
    THEN u.picks_prev ELSE u.picks_now

\* lines 176, 205-206: the entry of one pick that has an "element"
SquadEntryOf(element, catalogue) ==
    IF catalogue /\ element \in CatalogueIds
    THEN [id |-> element, name |-> "web_name"]
    ELSE [id |-> NoElement, name |-> "Unknown"]

\* pick["element"] raises KeyError for a pick without the key (line 176)
HasBadPick(picks) == \E i \in 1..Len(picks) : picks[i] = NoElement

\* lines 128-268 for a catalogue that is a dict (possibly empty)
SquadContextFrom(u, catalogue) ==
    LET picks_data == PicksData(u)
    IN  IF picks_data = NoPicks
        THEN [status |-> "ok", squad |-> <<>>, current_gw |-> TargetGw(u)]
        ELSE IF HasBadPick(picks_data) THEN RaisedContext
        ELSE [status     |-> "ok",
              squad      |-> [i \in 1..Len(picks_data) |->
                                 SquadEntryOf(picks_data[i], catalogue)],
              current_gw |-> TargetGw(u)]

\* /chat and /squad pass `bootstrap or {}`
SquadContextOrEmpty(u) == SquadContextFrom(u, u.catalogue)

\* generate_recommendation passes bootstrap as fetched: None.get raises
\* AttributeError at line 128
SquadContextStrict(u) ==
    IF ~u.catalogue THEN RaisedContext ELSE SquadContextFrom(u, TRUE)

CtxInit ==
    /\ upstream = NoUpstream
    /\ squad_ctx = NoContext

\* a request arrives; the upstream is in some state for it
RequestArrives ==
    /\ upstream = NoUpstream
    /\ squad_ctx = NoContext
    /\ \E u \in Upstreams : upstream' = u
    /\ UNCHANGED <<squad_ctx, nonCtxVars>>

\* main.py 312-313 (also /chat, 285-286)
GetSquad ==
    /\ upstream # NoUpstream
    /\ squad_ctx = NoContext
    /\ squad_ctx' = SquadContextOrEmpty(upstream)
    /\ UNCHANGED <<upstream, nonCtxVars>>

\* analysis.py 24
RecommendationContext ==
    /\ upstream # NoUpstream
    /\ squad_ctx = NoContext
    /\ squad_ctx' = SquadContextStrict(upstream)
    /\ UNCHANGED <<upstream, nonCtxVars>>

\* the handler returns (or answers 500); nothing is kept
RequestDone ==
    /\ squad_ctx # NoContext
    /\ upstream' = NoUpstream
    /\ squad_ctx' = NoContext
    /\ UNCHANGED nonCtxVars

CtxNext == RequestArrives \/ GetSquad \/ RecommendationContext \/ RequestDone

\* --------------------------------------------- properties (squad context)
\* C22: when the picks of the most recent gameweek are missing and that
\* gameweek is after the first, the context is built from the previous
\* gameweek's picks without failing, and it is marked stale: it differs from
\* the context the same picks give when they are the most recent
\* gameweek's own.
C22_FallbackMarkedStale ==
    (/\ squad_ctx.status # "none"
     /\ upstream.catalogue
     /\ upstream.picks_now = NoPicks
     /\ upstream.target_gw > 1
     /\ upstream.picks_prev # NoPicks
     /\ upstream.picks_prev # <<>>
     /\ ~HasBadPick(upstream.picks_prev)) =>
        /\ squad_ctx.status = "ok"
        /\ Len(squad_ctx.squad) = Len(upstream.picks_prev)
        /\ squad_ctx # SquadContextFrom(
               [upstream EXCEPT !.picks_now = upstream.picks_prev], TRUE)

\* C24: building the squad context raises if and only if the catalogue is
\* absent; with a catalogue, every pick of the response used has an entry,
\* a pick without a usable player id included.
C24_FailsOnlyWithoutCatalogue ==
    squad_ctx.status # "none" =>
        /\ squad_ctx.status = "raised" <=> ~upstream.catalogue
        /\ (upstream.catalogue /\ PicksData(upstream) # NoPicks) =>
              Len(squad_ctx.squad) = Len(PicksData(upstream))

\* =========================================================================
\* Malformed upstream records: connect_team (main.py 119-153) and
\* get_history (main.py 424-447) on a history that may hold them
\* =========================================================================

\* Most weekly records in a fetched history
MaxRawLen == 3

\* the "event" key is missing from a chip entry
MissingEvent == 0 - 2

\* event_transfers and event_transfers_cost as they may arrive
RawMades == (0 - 1)..1
RawCosts == {0 - HitCost, 0, HitCost}

RawRecords == [made : RawMades, cost : RawCosts]

\* chip events as they may arrive: two gameweeks, a zero, a missing key
RawEvents == {15, 20, 0, MissingEvent}

RawChips == [name : ChipNames, event : RawEvents]

RawCurrents == UNION {[1..k -> RawRecords] : k \in 0..MaxRawLen}
RawChipLogs == UNION {[1..k -> RawChips] : k \in 0..MaxChipLog}

\* one fetch is looked at for its weekly records or for its chips
RawHistories ==
    [current : RawCurrents \ {<<>>}, chips : {<<>>}]
        \cup [current : {<<>>}, chips : RawChipLogs \ {<<>>}]

NoRaw == [current |-> <<>>, chips |-> <<>>]

NoRawResp == [kind |-> "none", free_transfers |-> Unset,
              chip_availability |-> EmptyDict]

\* the loop of lines 132-142 over current[:-1], from its k-th record on
RECURSIVE ConnectWalkFrom(_, _, _)
ConnectWalkFrom(balance, current, k) ==
    IF k >= Len(current) THEN balance
    ELSE ConnectWalkFrom(
             ConnectWalk(balance, current[k].made, current[k].cost),
             current, k + 1)

\* lines 113-153 of connect_team for a history that was fetched
ConnectFreeTransfers(current) ==
    IF current = <<>> THEN DefaultFT
    ELSE ConnectResult(
             ConnectCurrentGW(ConnectWalkFrom(StartFT, current, 1),
                              current[Len(current)].made,
                              current[Len(current)].cost))

\* c.get("event", 0)  (main.py 427)
EventOr0(c) ==
    [name |-> c.name,
     event |-> IF c.event = MissingEvent THEN 0 ELSE c.event]

\* lines 424-447 on the chips as fetched
RawChipAvailability(log) ==
    HistoryChipAvailability([i \in 1..Len(log) |-> EventOr0(log[i])])

RejectInit ==
    /\ raw = NoRaw
    /\ raw_resp = NoRawResp

\* the upstream history a request will see
FetchRawHistory ==
    /\ raw = NoRaw
    /\ raw_resp = NoRawResp
    /\ \E h \in RawHistories : raw' = h
    /\ UNCHANGED <<raw_resp, nonRejectVars>>

\* /connect on that history
ConnectRaw ==
    /\ raw.current # <<>>
    /\ raw_resp = NoRawResp
    /\ raw_resp' = [kind |-> "connect",
                    free_transfers |-> ConnectFreeTransfers(raw.current),
                    chip_availability |-> EmptyDict]
    /\ UNCHANGED <<raw, nonRejectVars>>

\* /history on that history
HistoryRaw ==
    /\ raw.chips # <<>>
    /\ raw_resp = NoRawResp
    /\ raw_resp' = [kind |-> "history",
                    free_transfers |-> Unset,
                    chip_availability |-> RawChipAvailability(raw.chips)]
    /\ UNCHANGED <<raw, nonRejectVars>>

\* the response is returned; nothing is kept
RawDone ==
    /\ raw_resp # NoRawResp
    /\ raw' = NoRaw
    /\ raw_resp' = NoRawResp
    /\ UNCHANGED nonRejectVars

RejectNext == FetchRawHistory \/ ConnectRaw \/ HistoryRaw \/ RawDone

\* ----------------------------------------- properties (malformed records)
MalformedRecord(r) == r.made < 0 \/ r.cost < 0

MalformedChip(c) == c.event = MissingEvent \/ c.event <= 0

\* the sequence without its i-th element
Without(seq, i) ==
    [j \in 1..(Len(seq) - 1) |-> IF j < i THEN seq[j] ELSE seq[j + 1]]

\* C23: a weekly record with a negative transfer count or cost, and a chip
\* event with a missing or non-positive event number, have no effect: the
\* free-transfer balance of /connect and the 8 availabilities of /history
\* equal those computed from the input with that record removed.
C23_MalformedRecordIgnored ==
    /\ raw_resp.kind = "connect" =>
         \A i \in 1..Len(raw.current) :
            MalformedRecord(raw.current[i]) =>
               raw_resp.free_transfers
                  = ConnectFreeTransfers(Without(raw.current, i))
    /\ raw_resp.kind = "history" =>
         \A i \in 1..Len(raw.chips) :
            MalformedChip(raw.chips[i]) =>
               raw_resp.chip_availability
                  = RawChipAvailability(Without(raw.chips, i))

\* =========================================================================
\* The scheduler: run (scheduler.py 29-60) over get_gameweek_info
\* (fpl.py 66-105)
\* =========================================================================

\* Gameweeks of the season followed
NumGw == 2

\* Check intervals between two deadlines
GwSpacing == 60

\* Last time followed, in check intervals
MaxNow == 130

\* Longest time is_next stays on a gameweek after its deadline, in check
\* intervals ("FPL sometimes has is_next lagging by a few hours")
MaxLag == 4

CheckIntervalMinutes == 30
BriefingWindowHours == 24
MinutesPerHour == 60

Gameweeks == 1..NumGw

\* deadline_time of gameweek g, in check intervals since the season opened
Deadline(g) == g * GwSpacing

\* gameweeks whose deadline has passed at time t
Started(t) == Cardinality({g \in Gameweeks : Deadline(g) < t})

\* what the upstream may flag at time t: events finish only after their
\* deadline, in order; is_next is the first event whose deadline is not
\* passed, or still the one before it for up to MaxLag
UpstreamAt(t) ==
    {u \in [is_next : Gameweeks \cup {NoGw}, finished : 0..NumGw] :
        /\ u.finished <= Started(t)
        /\ \/ u.is_next = (IF Started(t) < NumGw THEN Started(t) + 1 ELSE NoGw)
           \/ /\ u.is_next = Started(t)
              /\ u.is_next # NoGw
              /\ t <= Deadline(u.is_next) + MaxLag}

\* is_next never moves back
NotBefore(a, b) ==
    (IF a = NoGw THEN NumGw + 1 ELSE a) >= (IF b = NoGw THEN NumGw + 1 ELSE b)

\* get_gameweek_info's "next" (fpl.py 76-90): the is_next event, or, when
\* its deadline has passed, the unfinished event of lowest id if there is one
NextGw(next_flag, n_finished, t) ==
    IF next_flag = NoGw THEN NoGw
    ELSE IF Deadline(next_flag) < t /\ n_finished < NumGw THEN n_finished + 1
    ELSE next_flag

\* hours_remaining <= BRIEFING_WINDOW_HOURS, the remaining time given in
\* check intervals (scheduler.py 45, 50)
InBriefingWindow(remaining) ==
    remaining * CheckIntervalMinutes <= BriefingWindowHours * MinutesPerHour

\* the condition of line 50
ShouldSend(gw, t, sent) ==
    InBriefingWindow(Deadline(gw) - t) /\ sent # gw

\* the scheduler process is not running
NotStarted == 0 - 1

SchedInit ==
    /\ now = NotStarted
    /\ is_next = NoGw
    /\ finished_gws = 0
    /\ already_sent_gw = NoGw
    /\ rounds = [g \in Gameweeks |-> 0]

\* lines 29-31: the process starts at some time of the season
StartScheduler ==
    /\ now = NotStarted
    /\ \E t \in 0..MaxNow :
         /\ now' = t
         /\ \E u \in UpstreamAt(t) :
              /\ is_next' = u.is_next
              /\ finished_gws' = u.finished
    /\ already_sent_gw' = NoGw
    /\ UNCHANGED <<rounds, nonSchedVars>>

\* line 60: asyncio.sleep(CHECK_INTERVAL_MINUTES * 60); the upstream moves on
Sleep ==
    /\ now # NotStarted
    /\ now < MaxNow
    /\ now' = now + 1
    /\ \E u \in UpstreamAt(now + 1) :
         /\ NotBefore(u.is_next, is_next)
         /\ u.finished >= finished_gws
         /\ is_next' = u.is_next
         /\ finished_gws' = u.finished

\* get_gameweek_info returned None (fpl.py 103-105): lines 36-38
CheckFetchFailed ==
    /\ Sleep
    /\ UNCHANGED <<already_sent_gw, rounds, nonSchedVars>>

\* no event is next: line 38
CheckNoNext ==
    /\ NextGw(is_next, finished_gws, now) = NoGw
    /\ Sleep
    /\ UNCHANGED <<already_sent_gw, rounds, nonSchedVars>>

\* lines 54-55
CheckWaiting ==
    /\ NextGw(is_next, finished_gws, now) # NoGw
    /\ ~ShouldSend(NextGw(is_next, finished_gws, now), now, already_sent_gw)
    /\ Sleep
    /\ UNCHANGED <<already_sent_gw, rounds, nonSchedVars>>

\* lines 50-53: the round is sent and remembered
CheckSend ==
    /\ NextGw(is_next, finished_gws, now) # NoGw
    /\ ShouldSend(NextGw(is_next, finished_gws, now), now, already_sent_gw)
    /\ rounds' = [rounds EXCEPT ![NextGw(is_next, finished_gws, now)] = Min(2, @ + 1)]
    /\ already_sent_gw' = NextGw(is_next, finished_gws, now)
    /\ Sleep
    /\ UNCHANGED nonSchedVars

\* lines 50-52, 57-58: get_all_active_users raised inside
\* send_all_briefings before any user was reached; line 53 is skipped
CheckSendRaised ==
    /\ NextGw(is_next, finished_gws, now) # NoGw
    /\ ShouldSend(NextGw(is_next, finished_gws, now), now, already_sent_gw)
    /\ Sleep
    /\ UNCHANGED <<already_sent_gw, rounds, nonSchedVars>>

SchedNext ==
    \/ StartScheduler
    \/ CheckFetchFailed
    \/ CheckNoNext
    \/ CheckWaiting
    \/ CheckSend
    \/ CheckSendRaised

\* -------------------------------------------------- properties (scheduler)
\* C25: during one run, briefings for a given gameweek are sent at most
\* once, whatever the checks observe.
C25_OneRoundPerGameweek ==
    \A g \in Gameweeks : rounds[g] <= 1

\* C26: a round of briefings is started only for a gameweek whose deadline
\* has not passed at the time of the check and only when 24 hours or less
\* remain.
C26_SentBeforeDeadlineInWindow ==
    [][\A g \in Gameweeks :
          rounds'[g] # rounds[g] =>
             /\ Deadline(g) >= now
             /\ (Deadline(g) - now) * CheckIntervalMinutes
                  <= BriefingWindowHours * MinutesPerHour]_allVars

\* ------------------------------------------- properties (prompt chips)
\* C27: the chips listed as available in the prompt built for a briefing are
\* those of the half the current gameweek falls in: the second-half entries
\* when the current event is 20 or more, the first-half entries otherwise.
C27_PromptChipsOfCurrentHalf ==
    (briefing_resp.status = "ok" /\ prompt_chips.built) =>
        prompt_chips.listed =
            {name \in ChipNames :
                briefing_resp.chip_availability[
                    <<name, IF current_event # NoEvent /\ current_event >= 20
                            THEN 2 ELSE 1>>]}

\* =========================================================================
\* The user store: save_user (database.py 38-60), written by /connect
\* (main.py 97-104) and /mode (main.py 324-335)
\* =========================================================================

TeamIds == {1, 2}

\* a request body without a usable team_id
NoTeamId == 0

\* Python None / SQL null
Null == "null"

Emails == {"a@example.com", "b@example.com"}

\* advisory | assisted | autopilot (main.py 47)
Modes == {"advisory", "assisted", "autopilot"}

\* team_data.get("name") of the FPL entry
TeamName(team_id) == IF team_id = 1 THEN "Team One" ELSE "Team Two"

NoRow == [present |-> FALSE, team_name |-> Null, email |-> Null, mode |-> Null]

\* the JSON body save_user posts (database.py 48-54): every column is
\* sent, a key the caller left out as null
SaveUserBody(team_name, email, mode) ==
    [present |-> TRUE, team_name |-> team_name, email |-> email, mode |-> mode]

\* the upsert by team_id (resolution=merge-duplicates): the row of that
\* team takes the posted columns
SaveUser(table, team_id, body) ==
    [table EXCEPT ![team_id] = body]

UserInit ==
    /\ users = [t \in TeamIds |-> NoRow]
    /\ last_op = [op |-> "none", team_id |-> NoTeamId]

\* /connect (main.py 97-104); the store takes the write or answers an error
Connect ==
    \E t \in TeamIds, email \in Emails \cup {Null}, mode \in Modes, stored \in BOOLEAN :
        /\ users' = IF stored
                    THEN SaveUser(users, t, SaveUserBody(TeamName(t), email, mode))
                    ELSE users
        /\ last_op' = [op |-> "connect", team_id |-> t]
        /\ UNCHANGED nonUserVars

\* /mode (main.py 324-335): save_user({"team_id": team_id, "mode": mode})
UpdateMode ==
    \E t \in TeamIds \cup {NoTeamId}, mode \in Modes, stored \in BOOLEAN :
        /\ users' = IF t # NoTeamId /\ stored
                    THEN SaveUser(users, t, SaveUserBody(Null, Null, mode))
                    ELSE users
        /\ last_op' = [op |-> "mode", team_id |-> t]
        /\ UNCHANGED nonUserVars

UserNext == Connect \/ UpdateMode

\* ------------------------------------------------- properties (user store)
\* C29: a /mode call for a connected user leaves the email and the team
\* name stored for that team_id as they were, for any sequence of /connect
\* and /mode calls.
C29_ModeUpdateKeepsEmailAndName ==
    [][\A t \in TeamIds :
          (last_op'.op = "mode" /\ last_op'.team_id = t /\ users[t].present) =>
             /\ users'[t].email = users[t].email
             /\ users'[t].team_name = users[t].team_name]_allVars

\* =========================================================================
\* One round of briefings: send_all_briefings (scheduler.py 63-87)
\* =========================================================================

MaxUsers == 3

\* user.get("email"): missing, empty or an address
RoundEmails == {Null, "", "a@example.com"}

\* a user row of the round: its email and whether get_team returns its team
RoundUserRows == [email : RoundEmails, team_ok : BOOLEAN]

RoundUserLists == UNION {[1..len -> RoundUserRows] : len \in 0..MaxUsers}

\* `if not user.get("email")` (scheduler.py 72)
HasEmail(user) == user.email # Null /\ user.email # ""

NoRound == 0

\* where the loop goes on after `except Exception` printed the error
\* (scheduler.py 86-87): the next user
NextAfterErrorAborts(pos, len) == len + 1

NextAfterError(pos, len) == pos + 1

RoundInit ==
    /\ round_users = <<>>
    /\ round_pos = NoRound
    /\ attempted = <<>>
    /\ emailed = <<>>
    /\ failed = <<>>

InRound == round_pos # NoRound /\ round_pos <= Len(round_users)

\* users = await get_all_active_users() (scheduler.py 65)
StartRound ==
    /\ round_pos = NoRound
    /\ \E us \in RoundUserLists : round_users' = us
    /\ round_pos' = 1
    /\ attempted' = <<>>
    /\ emailed' = <<>>
    /\ failed' = <<>>
    /\ UNCHANGED nonRoundVars

\* `if not user.get("email"): continue` (scheduler.py 72-73)
SkipNoEmail ==
    /\ InRound
    /\ ~HasEmail(round_users[round_pos])
    /\ round_pos' = round_pos + 1
    /\ UNCHANGED <<round_users, attempted, emailed, failed>>
    /\ UNCHANGED nonRoundVars

\* `if not team_data: continue` (scheduler.py 75-77)
SkipNoTeam ==
    /\ InRound
    /\ HasEmail(round_users[round_pos])
    /\ ~round_users[round_pos].team_ok
    /\ round_pos' = round_pos + 1
    /\ UNCHANGED <<round_users, attempted, emailed, failed>>
    /\ UNCHANGED nonRoundVars

\* the briefing is generated and sent (scheduler.py 79-84)
SendBriefing ==
    /\ InRound
    /\ HasEmail(round_users[round_pos])
    /\ round_users[round_pos].team_ok
    /\ attempted' = Append(attempted, round_pos)
    /\ emailed' = Append(emailed, round_pos)
    /\ round_pos' = round_pos + 1
    /\ UNCHANGED <<round_users, failed>>
    /\ UNCHANGED nonRoundVars

\* generate_recommendation or send_briefing_email raises (scheduler.py
\* 79-80, 86-87): with mail_raised the mailer was reached
BriefingRaised ==
    /\ InRound
    /\ HasEmail(round_users[round_pos])
    /\ round_users[round_pos].team_ok
    /\ \E mail_raised \in BOOLEAN :
           emailed' = IF mail_raised THEN Append(emailed, round_pos) ELSE emailed
    /\ attempted' = Append(attempted, round_pos)
    /\ failed' = Append(failed, round_pos)
    /\ round_pos' = NextAfterError(round_pos, Len(round_users))
    /\ UNCHANGED round_users
    /\ UNCHANGED nonRoundVars

\* the for loop is over and send_all_briefings returns
RoundDone ==
    /\ round_pos > Len(round_users)
    /\ round_pos' = NoRound
    /\ round_users' = <<>>
    /\ attempted' = <<>>
    /\ emailed' = <<>>
    /\ failed' = <<>>
    /\ UNCHANGED nonRoundVars

RoundNext ==
    \/ StartRound
    \/ SkipNoEmail
    \/ SkipNoTeam
    \/ SendBriefing
    \/ BriefingRaised
    \/ RoundDone

\* ------------------------------------------- properties (one round)
RECURSIVE Eligible(_, _)
\* the positions up to upto of users with an email and a fetchable team, in
\* list order
Eligible(us, upto) ==
    IF upto = 0 THEN <<>>
    ELSE IF HasEmail(us[upto]) /\ us[upto].team_ok
         THEN Append(Eligible(us, upto - 1), upto)
         ELSE Eligible(us, upto - 1)

\* C30: whatever failed before, when the loop has passed all users every
\* user with an email and a fetchable team was attempted exactly once, in
\* list order, and no user without an email was sent to.
C30_RoundAttemptsEveryEligibleUser ==
    /\ round_pos > Len(round_users) =>
           attempted = Eligible(round_users, Len(round_users))
    /\ (round_pos # NoRound /\ round_pos <= Len(round_users)) =>
           attempted = Eligible(round_users, round_pos - 1)
    /\ \A i \in 1..Len(emailed) : HasEmail(round_users[emailed[i]])

\* a finished round in which a user failed and a later user was attempted
\* and a user without an email was passed
C30_Witness ==
    /\ round_pos > Len(round_users)
    /\ \E i \in 1..Len(failed) : \E j \in 1..Len(attempted) :
           attempted[j] > failed[i]
    /\ \E k \in 1..Len(round_users) : ~HasEmail(round_users[k])

\* =========================================================================
\* Specifications
\* =========================================================================

InitAll == Init /\ ChipInit /\ AvailInit /\ PriceInit /\ CtxInit /\ RejectInit /\ SchedInit /\ UserInit /\ RoundInit

\* the free-transfer handlers
Spec == InitAll /\ [][Next]_allVars

\* the chip availability endpoints
SpecChips == InitAll /\ [][ChipNext]_allVars

\* the availability classifier
SpecAvail == InitAll /\ [][AvailNext]_allVars

\* the price fields of a squad entry
SpecPrice == InitAll /\ [][PriceNext]_allVars

\* the squad context as a whole
SpecCtx == InitAll /\ [][CtxNext]_allVars

\* malformed upstream records
SpecReject == InitAll /\ [][RejectNext]_allVars

\* the scheduler's loop
SpecSched == InitAll /\ [][SchedNext]_allVars

\* the user store
SpecUsers == InitAll /\ [][UserNext]_allVars

\* one round of briefings
SpecRound == InitAll /\ [][RoundNext]_allVars

====
